---------------------------- MODULE Spec2Model ----------------------------
(***************************************************************************)
(* A model of src/util/factory.js of build-your-own-radar: the resolver    *)
(* GoogleSheetInput.build, the three ingestion paths (CSVDocument,         *)
(* JSONFile, GoogleSheet), the model construction plotRadar and the        *)
(* asynchronous authentication flow of GoogleSheet.authenticate with the   *)
(* switch-account action of plotUnauthorizedErrorMessage.                  *)
(*                                                                         *)
(* JavaScript strings are sequences of one-character strings, so that      *)
(* endsWith, the regular expressions and decodeURIComponent are computed   *)
(* character by character.  A JavaScript value is a record tagged by its   *)
(* type: Str(s), Undefined, Null.                                          *)
(***************************************************************************)
EXTENDS Integers, Sequences, FiniteSets, TLC

VARIABLES
    pc,         \* position of the run: which handler has run last
    location,   \* window.location.search, a string (sequence of characters)
    outcome,    \* what GoogleSheetInput.build did: fetcher built, form, or throw
    input,      \* what the ingestion under way was given (source, data, names)
    trace,      \* the calls made so far by the ingestion under way, in order
    page,       \* document.title and what the rendering collaborator was handed
    async,      \* the asynchronous operations in flight (validate, load, login, fetch)
    dom,        \* error panels shown on the page
    clicks      \* number of switch-account clicks made so far

vars == <<pc, location, outcome, input, trace, page, async, dom, clicks>>

----------------------------------------------------------------------------
(* JavaScript values *)

Undefined == [t |-> "undefined"]
Null == [t |-> "null"]
Str(s) == [t |-> "string", s |-> s]
IsStr(v) == v.t = "string"
\* JavaScript truthiness of undefined, null and strings
Truthy(v) == IsStr(v) /\ Len(v.s) > 0

\* String.prototype.endsWith
EndsWith(s, suffix) ==
    /\ Len(s) >= Len(suffix)
    /\ SubSeq(s, Len(s) - Len(suffix) + 1, Len(s)) = suffix

\* String.prototype.substring(n) for n <= length
Substring(s, n) == SubSeq(s, n + 1, Len(s))

\* does `word` occur in s at position i
OccursAt(s, word, i) ==
    /\ i >= 1
    /\ i + Len(word) - 1 <= Len(s)
    /\ SubSeq(s, i, i + Len(word) - 1) = word

SetMax(S) == CHOOSE x \in S : \A y \in S : y <= x
SetMin(S) == CHOOSE x \in S : \A y \in S : x <= y

\* the string literals of factory.js
DotCsv == <<".","c","s","v">>
DotJson == <<".","j","s","o","n">>
GoogleCom == <<"g","o","o","g","l","e",".","c","o","m">>
SheetIdWord == <<"s","h","e","e","t","I","d">>
SheetNameWord == <<"s","h","e","e","t","N","a","m","e">>
SchemeSep == <<":","/","/">>

----------------------------------------------------------------------------
(* url.replace(/\+/g, ' ') and decodeURIComponent *)

ReplacePlus(s) == [i \in 1..Len(s) |-> IF s[i] = "+" THEN " " ELSE s[i]]

HexDigits == {"0","1","2","3","4","5","6","7","8","9",
              "A","B","C","D","E","F","a","b","c","d","e","f"}

\* decodeURIComponent throws URIError on a "%" that does not start an escape
Malformed(s) ==
    \E i \in 1..Len(s) :
        /\ s[i] = "%"
        /\ ~(i + 2 <= Len(s) /\ s[i+1] \in HexDigits /\ s[i+2] \in HexDigits)

\* the ASCII escapes that occur in the modelled inputs
PercentChar(h, l) ==
    CASE h = "3" /\ l \in {"A","a"} -> ":"
      [] h = "2" /\ l \in {"F","f"} -> "/"
      [] h = "2" /\ l = "0" -> " "
      [] h = "2" /\ l = "6" -> "&"
      [] h = "3" /\ l \in {"D","d"} -> "="
      [] h = "2" /\ l = "5" -> "%"
      [] h = "2" /\ l \in {"B","b"} -> "+"
      [] OTHER -> "?"

RECURSIVE DecodeFrom(_, _)
DecodeFrom(s, i) ==
    IF i > Len(s) THEN <<>>
    ELSE IF s[i] = "%" THEN <<PercentChar(s[i+1], s[i+2])>> \o DecodeFrom(s, i + 3)
    ELSE <<s[i]>> \o DecodeFrom(s, i + 1)

\* decodeURIComponent(s) for a well-formed s
DecodeURIComponent(s) == DecodeFrom(s, 1)

----------------------------------------------------------------------------
(* DomainName: /.+:\/\/([^\\/]+)/ on the decoded url; null when no match *)

NotSlash(c) == c \notin {"\\", "/"}

\* the positions where "://" can match: at least one character before it
\* (.+) and at least one character of [^\\/] after it
SchemePositions(s) ==
    {i \in 2..Len(s) : OccursAt(s, SchemeSep, i) /\ i + 3 <= Len(s) /\ NotSlash(s[i+3])}

\* the end of the longest run of [^\\/] that starts at position from
RunEnd(s, from) ==
    LET stops == {j \in from..Len(s) : ~NotSlash(s[j])}
    IN  IF stops = {} THEN Len(s) ELSE SetMin(stops) - 1

\* url is well formed (decodeURIComponent did not throw)
DomainName(url) ==
    LET s == DecodeURIComponent(ReplacePlus(url))
        at == SchemePositions(s)
        \* .+ is greedy: the last position is tried first
        i == SetMax(at)
    IN  IF at = {} THEN Null ELSE Str(SubSeq(s, i + 3, RunEnd(s, i + 3)))


----------------------------------------------------------------------------
(* QueryParams (util/queryParamProcessor): the query string as a mapping of
   decoded keys to decoded values; a later key overrides an earlier one *)

\* the positions of character c in s
Positions(s, c) == {i \in 1..Len(s) : s[i] = c}

\* the pieces of s between the occurrences of c, in order
RECURSIVE SplitBy(_, _)
SplitBy(s, c) ==
    LET at == Positions(s, c)
    IN  IF at = {} THEN <<s>>
        ELSE <<SubSeq(s, 1, SetMin(at) - 1)>> \o SplitBy(SubSeq(s, SetMin(at) + 1, Len(s)), c)

Decode(s) == DecodeURIComponent(ReplacePlus(s))

SegmentKey(seg) ==
    LET at == Positions(seg, "=")
    IN  Decode(IF at = {} THEN seg ELSE SubSeq(seg, 1, SetMin(at) - 1))

SegmentValue(seg) ==
    LET at == Positions(seg, "=")
    IN  Decode(IF at = {} THEN <<>> ELSE SubSeq(seg, SetMin(at) + 1, Len(seg)))

\* queryString is well formed
QueryParams(queryString) ==
    LET segs == SplitBy(queryString, "&")
        used == {i \in 1..Len(segs) : Len(SegmentKey(segs[i])) > 0}
        keys == {SegmentKey(segs[i]) : i \in used}
    IN  [k \in keys |->
            SegmentValue(segs[SetMax({i \in used : SegmentKey(segs[i]) = k})])]

\* queryParams.name: undefined when the key is absent
Param(queryParams, name) ==
    IF name \in DOMAIN queryParams THEN Str(queryParams[name]) ELSE Undefined

----------------------------------------------------------------------------
(* GoogleSheetInput.build *)

\* window.location.href: origin and path, then the search string
HrefBase == <<"h","t","t","p",":","/","/","l","o","c","a","l","h","o","s","t",":","8","0","8","0","/">>
Href(search) == HrefBase \o search

\* href.match(/sheetId(.*)/): the text from the first "sheetId" on, or null
MatchSheetId(href) ==
    LET at == {i \in 1..Len(href) : OccursAt(href, SheetIdWord, i)}
    IN  IF at = {} THEN Null ELSE Str(SubSeq(href, SetMin(at), Len(href)))

\* queryString ? QueryParams(queryString[0]) : {}
ParamsOfHref(href) ==
    LET queryString == MatchSheetId(href)
    IN  IF queryString = Null THEN << >> ELSE QueryParams(queryString.s)

Threw(error) == [kind |-> error, sheetId |-> Undefined, sheetName |-> Undefined]
Built(kind, sheetId, sheetName) == [kind |-> kind, sheetId |-> sheetId, sheetName |-> sheetName]
ShowForm == [kind |-> "form", sheetId |-> Undefined, sheetName |-> Undefined]

\* the branches of build, once domainName is computed
BuildBranches(domainName, sheetId, sheetName) ==
    IF ~Truthy(domainName) THEN ShowForm
    \* queryParams.sheetId.endsWith on undefined
    ELSE IF sheetId = Undefined THEN Threw("TypeError")
    ELSE IF EndsWith(sheetId.s, DotCsv) THEN Built("CSVDocument", sheetId, Undefined)
    ELSE IF EndsWith(sheetId.s, DotJson) THEN Built("JSONFile", sheetId, Undefined)
    ELSE IF EndsWith(domainName.s, GoogleCom) /\ Truthy(sheetId)
         THEN Built("GoogleSheet", sheetId, sheetName)
    ELSE ShowForm

GoogleSheetInput_build(search) ==
    LET query == Substring(search, 1)
    IN  IF Malformed(ReplacePlus(query)) THEN Threw("URIError")
        ELSE LET queryParams == ParamsOfHref(Href(search))
             IN  BuildBranches(DomainName(query),
                               Param(queryParams, SheetIdWord),
                               Param(queryParams, SheetNameWord))

----------------------------------------------------------------------------
(* The query strings the resolver is run on: up to MaxParams parameters *)

MaxParams == 2

ParamKeys == {SheetIdWord, SheetNameWord, <<"q">>}

ParamValues == {
    <<>>,
    <<"a",".","c","s","v">>,
    <<"h","t","t","p","s",":","/","/","x",".","i","o","/","a",".","c","s","v">>,
    <<"h","t","t","p","s",":","/","/","x",".","i","o","/","b",".","j","s","o","n">>,
    <<"h","t","t","p","s",":","/","/","d","o","c","s",".","g","o","o","g","l","e",".","c","o","m","/","d","/","1">>,
    <<"h","t","t","p","s","%","3","A","%","2","F","%","2","F","d","o","c","s",".","g","o","o","g","l","e",".","c","o","m","%","2","F","d","%","2","F","1">>,
    <<"h","t","t","p","s",":","/","/","x",".","i","o","/","d">>,
    <<"S","+","1">>,
    <<"%">> }

ParamTexts == {k \o <<"=">> \o v : k \in ParamKeys, v \in ParamValues}

RECURSIVE JoinAmp(_)
JoinAmp(ps) ==
    IF Len(ps) = 0 THEN <<>>
    ELSE IF Len(ps) = 1 THEN ps[1]
    ELSE ps[1] \o <<"&">> \o JoinAmp(Tail(ps))

SearchStrings ==
    {<<>>} \cup
    UNION {{<<"?">> \o JoinAmp(ps) : ps \in [1..n -> ParamTexts]} : n \in 1..MaxParams}

----------------------------------------------------------------------------
(* plotRadar: title, rings, quadrants, Radar, rendering.
   Ring, quadrant and blip names are atomic strings: plotRadar only compares
   them and uses them as object keys.  Titles are character sequences. *)

maxRings == 4

\* the quadrant count a Radar holds (models/radar)
QuadrantCount == 4

\* title.endsWith('.csv') / title.endsWith('.json'), one after the other
StripExtensions(title) ==
    LET t1 == IF EndsWith(title, DotCsv) THEN SubSeq(title, 1, Len(title) - 4) ELSE title
    IN  IF EndsWith(t1, DotJson) THEN SubSeq(t1, 1, Len(t1) - 5) ELSE t1

\* _.capitalize on the quadrant names of the model
capitalize(w) ==
    CASE w = "tools" -> "Tools"
      [] w = "techniques" -> "Techniques"
      [] w = "platforms" -> "Platforms"
      [] w = "languages" -> "Languages"
      [] w = "data" -> "Data"
      [] w = "constructor" -> "Constructor"
      [] OTHER -> w

\* String.prototype.toLowerCase on the isNew values of the model
toLowerCase(w) ==
    CASE w = "TRUE" -> "true"
      [] w = "True" -> "true"
      [] OTHER -> w

\* the properties every JavaScript object inherits from Object.prototype:
\* quadrants[key] is truthy for them although no Quadrant was stored
ObjectPrototypeKeys ==
    {"constructor", "toString", "valueOf", "hasOwnProperty", "isPrototypeOf",
     "propertyIsEnumerable", "toLocaleString", "__proto__"}

\* _.map(_.uniqBy(blips, 'ring'), 'ring'): the ring values in first-seen order
RECURSIVE UniqRingsFrom(_, _, _)
UniqRingsFrom(blips, i, seen) ==
    IF i > Len(blips) THEN seen
    ELSE IF \E j \in 1..Len(seen) : seen[j] = blips[i].ring
         THEN UniqRingsFrom(blips, i + 1, seen)
         ELSE UniqRingsFrom(blips, i + 1, Append(seen, blips[i].ring))

UniqRings(blips) == UniqRingsFrom(blips, 1, <<>>)

\* mutant: the overflow test is off by one (i > maxRings)
CreateRingsLate(rings) ==
    [error |-> IF Len(rings) > maxRings + 1 THEN "TOO_MANY_RINGS" ELSE "none",
     rings |-> [j \in 1..(IF Len(rings) > maxRings + 1 THEN maxRings + 1 ELSE Len(rings))
                  |-> [name |-> rings[j], order |-> j - 1]]]

\* mutant: ring orders start at 1
CreateRingsFromOne(rings) ==
    [error |-> IF Len(rings) > maxRings THEN "TOO_MANY_RINGS" ELSE "none",
     rings |-> [j \in 1..(IF Len(rings) > maxRings THEN maxRings ELSE Len(rings))
                  |-> [name |-> rings[j], order |-> j]]]

\* _.each(rings, ...): new Ring(ringName, i) for i = 0, 1, ...; throws when
\* i reaches maxRings, the Rings 0..maxRings-1 being created by then
CreateRings(rings) ==
    [error |-> IF Len(rings) > maxRings THEN "TOO_MANY_RINGS" ELSE "none",
     rings |-> [j \in 1..(IF Len(rings) > maxRings THEN maxRings ELSE Len(rings))
                  |-> [name |-> rings[j], order |-> j - 1]]]

\* ringMap[ringName]: the Ring stored last under that name, undefined if none
RingMapGet(ringList, ringName) ==
    LET at == {j \in 1..Len(ringList) : ringList[j].name = ringName}
    IN  IF at = {} THEN Undefined ELSE ringList[SetMax(at)]

\* new Blip(blip.name, ringMap[blip.ring], blip.isNew.toLowerCase() === 'true', ...)
NewBlip(blip, ringList) ==
    [name |-> blip.name,
     ring |-> RingMapGet(ringList, blip.ring),
     isNew |-> (toLowerCase(blip.isNew) = "true")]

\* the key under which a blip is grouped
GroupKey(blip) == blip.quadrant

\* _.each(blips, ...): keys are the own keys of `quadrants` in insertion
\* order, members[k] the Blips added to the Quadrant under keys[k]
RECURSIVE GroupFrom(_, _, _, _, _, _)
GroupFrom(blips, ringList, i, keys, members, made) ==
    IF i > Len(blips)
    THEN [error |-> "none", keys |-> keys, members |-> members, blips |-> made]
    ELSE
      LET key == GroupKey(blips[i])
          b == NewBlip(blips[i], ringList)
          own == {k \in 1..Len(keys) : keys[k] = key}
      IN  IF own # {}
          THEN GroupFrom(blips, ringList, i + 1, keys,
                         [members EXCEPT ![SetMin(own)] = Append(@, b)], Append(made, b))
          ELSE IF key \in ObjectPrototypeKeys
          \* !quadrants[key] is false, and quadrants[key].add is not a function
          THEN [error |-> "TypeError", keys |-> keys, members |-> members,
                blips |-> Append(made, b)]
          ELSE GroupFrom(blips, ringList, i + 1, Append(keys, key),
                         Append(members, <<b>>), Append(made, b))

GroupByQuadrant(blips, ringList) == GroupFrom(blips, ringList, 1, <<>>, <<>>, <<>>)

\* the Quadrants of the grouping, in the order _.each visits them
QuadrantsOf(group) ==
    [k \in 1..Len(group.keys) |->
        [name |-> capitalize(group.keys[k]), blips |-> group.members[k]]]

\* Radar.addQuadrant, once per Quadrant, then the count the Radar requires:
\* a Radar holds exactly QuadrantCount quadrants
RadarQuadrantsError(quadrants) ==
    IF Len(quadrants) > QuadrantCount THEN "TOO_MANY_QUADRANTS"
    ELSE IF Len(quadrants) < QuadrantCount THEN "LESS_THAN_FOUR_QUADRANTS"
    ELSE "none"

NoRadar == [quadrants |-> <<>>, current |-> Null, alternatives |-> <<>>, built |-> FALSE]

PlotResult(title, error, ringList, group, radar, rendered) ==
    [title |-> title, error |-> error, rings |-> ringList,
     quadrants |-> QuadrantsOf(group), blips |-> group.blips,
     radar |-> radar, rendered |-> rendered]

NoGroup == [error |-> "none", keys |-> <<>>, members |-> <<>>, blips |-> <<>>]

plotRadar(title, blips, currentRadarName, alternativeRadars) ==
    LET docTitle == StripExtensions(title)
        made == CreateRings(UniqRings(blips))
        group == GroupByQuadrant(blips, made.rings)
        quadrants == QuadrantsOf(group)
        radar == [quadrants |-> quadrants, current |-> currentRadarName,
                  alternatives |-> alternativeRadars, built |-> TRUE]
    IN  IF made.error # "none"
        THEN PlotResult(docTitle, made.error, made.rings, NoGroup, NoRadar, FALSE)
        ELSE IF group.error # "none"
        THEN PlotResult(docTitle, group.error, made.rings, group, NoRadar, FALSE)
        ELSE IF RadarQuadrantsError(quadrants) # "none"
        THEN PlotResult(docTitle, RadarQuadrantsError(quadrants), made.rings, group,
                        NoRadar, FALSE)
        ELSE PlotResult(docTitle, "none", made.rings, group, radar, TRUE)

----------------------------------------------------------------------------
(* The ingestion handlers.  A fetched data set is [columns, rows]: the header
   names and the raw rows.  A handler's result is the sequence of calls it
   made, each with its outcome, and the result of plotRadar if it got there. *)

Ev(call, error) == [call |-> call, ok |-> (error = "none"), error |-> error]

\* String.prototype.toLowerCase on the header names of the model
HeaderLower(h) ==
    CASE h = "Name" -> "name"
      [] h = "Ring" -> "ring"
      [] h = "Quadrant" -> "quadrant"
      [] h \in {"isNew", "IsNew"} -> "isnew"
      [] h = "Description" -> "description"
      [] OTHER -> h

RequiredHeaders == {"name", "ring", "quadrant", "isnew", "description"}

\* ContentValidator(columnNames).verifyContent: the validator is handed the
\* header names only; no content means no column at all
verifyContent(columnNames) ==
    IF Len(columnNames) = 0 THEN "MISSING_CONTENT" ELSE "none"

\* ContentValidator(columnNames).verifyHeaders: case- and order-insensitive
verifyHeaders(columnNames) ==
    IF RequiredHeaders \subseteq {HeaderLower(columnNames[i]) : i \in 1..Len(columnNames)}
    THEN "none" ELSE "MISSING_HEADERS"

\* the calls of one `new ContentValidator(columnNames)` followed by
\* verifyContent() and verifyHeaders(), up to the first that throws
ValidatorCalls(columnNames) ==
    IF verifyContent(columnNames) # "none"
    THEN <<Ev("verifyContent", verifyContent(columnNames))>>
    ELSE <<Ev("verifyContent", "none"), Ev("verifyHeaders", verifyHeaders(columnNames))>>

\* trimming and case normalisation of the ring and quadrant values of the model
Normalize(w) ==
    CASE w = " Tools" -> "tools"
      [] w = "Adopt " -> "adopt"
      [] OTHER -> w

\* InputSanitizer.sanitize / sanitizeForProtectedSheet: the canonical record
sanitize(rawRow) ==
    [name |-> rawRow.name, ring |-> Normalize(rawRow.ring),
     quadrant |-> Normalize(rawRow.quadrant), isNew |-> rawRow.isNew]

SanitizeCalls(rows) == [i \in 1..Len(rows) |-> Ev("sanitize", "none")]

\* the error of the first call that threw, "none" if every call returned
FirstError(calls) ==
    LET failed == {i \in 1..Len(calls) : ~calls[i].ok}
    IN  IF failed = {} THEN "none" ELSE calls[SetMin(failed)].error

\* plotErrorMessage(exception)
Shown(error) == [call |-> "plotErrorMessage", ok |-> TRUE, error |-> error]

NoPlot == [title |-> <<>>, error |-> "not called", rings |-> <<>>, quadrants |-> <<>>,
           blips |-> <<>>, radar |-> NoRadar, rendered |-> FALSE]

\* the calls of plotRadar: the model construction, then the renderer
PlotCalls(plot) ==
    <<Ev("plotRadar", plot.error)>> \o
    (IF plot.rendered THEN <<Ev("GraphingRadar", "none")>> ELSE <<>>)

\* FileName: /([^\\/]+)$/ on the decoded url; the url itself when no match
FileName(url) ==
    LET s == Decode(url)
        stops == {j \in 1..Len(s) : ~NotSlash(s[j])}
        from == IF stops = {} THEN 1 ELSE SetMax(stops) + 1
    IN  IF from > Len(s) THEN url ELSE SubSeq(s, from, Len(s))

CsvFileLabel == <<"C","S","V"," ","F","i","l","e">>
JsonFileLabel == <<"J","S","O","N"," ","F","i","l","e">>

\* the part of createBlips after the checks: sanitize every row, then plotRadar
SanitizeAndPlot(url, rows, label, checks) ==
    IF Malformed(ReplacePlus(url))
    THEN [calls |-> checks \o SanitizeCalls(rows) \o <<Ev("FileName", "URIError")>>,
          plot |-> NoPlot]
    ELSE LET plot == plotRadar(FileName(url), [i \in 1..Len(rows) |-> sanitize(rows[i])],
                               Str(label), <<>>)
         IN  [calls |-> checks \o SanitizeCalls(rows) \o PlotCalls(plot), plot |-> plot]

\* the body of the try block, then catch (exception) { plotErrorMessage(exception) }
WithCatch(run) ==
    IF FirstError(run.calls) = "none" THEN run
    ELSE [run EXCEPT !.calls = Append(@, Shown(FirstError(run.calls)))]

\* mutant: a failed check does not stop createBlips
CSVDocument_createBlipsUnchecked(url, data) ==
    WithCatch(SanitizeAndPlot(url, data.rows, CsvFileLabel, ValidatorCalls(data.columns)))

\* CSVDocument.createBlips(data): data.columns are the header names
CSVDocument_createBlips(url, data) ==
    LET checks == ValidatorCalls(data.columns)
    IN  WithCatch(IF FirstError(checks) # "none" THEN [calls |-> checks, plot |-> NoPlot]
                  ELSE SanitizeAndPlot(url, data.rows, CsvFileLabel, checks))

\* JSONFile.createBlips(data): Object.keys(data[0]) are the header names, and
\* throws TypeError when data[0] is undefined
JSONFile_createBlips(url, data) ==
    LET checks == IF Len(data.rows) = 0 THEN <<Ev("Object.keys", "TypeError")>>
                  ELSE ValidatorCalls(data.columns)
    IN  WithCatch(IF FirstError(checks) # "none" THEN [calls |-> checks, plot |-> NoPlot]
                  ELSE SanitizeAndPlot(url, data.rows, JsonFileLabel, checks))

\* the values of a sheet: the header row, then the rows; nothing for an empty sheet
SheetValues(data) ==
    IF Len(data.columns) = 0 /\ Len(data.rows) = 0 THEN <<>>
    ELSE <<data.columns>> \o data.rows

\* values.forEach(...): one validator on values[0] per element of values
RECURSIVE ForEachValidate(_, _)
ForEachValidate(values, n) ==
    IF n = 0 THEN <<>>
    ELSE LET calls == ValidatorCalls(values[1])
         IN  IF FirstError(calls) # "none" THEN calls
             ELSE calls \o ForEachValidate(values, n - 1)

\* String(v) in a string concatenation
ToText(v) == IF IsStr(v) THEN v.s ELSE <<"u","n","d","e","f","i","n","e","d">>

\* if (!sheetName) sheetName = sheetNames[0]
CurrentSheetName(sheetName, sheetNames) ==
    IF Truthy(sheetName) THEN sheetName
    ELSE IF Len(sheetNames) > 0 THEN Str(sheetNames[1]) ELSE Undefined

SheetTitle(documentTitle, sheetName) ==
    documentTitle \o <<" ", "-", " ">> \o ToText(sheetName)

\* createBlipsForProtectedSheet(documentTitle, values, sheetNames) of the
\* GoogleSheet whose sheetName is given; what it throws reaches the caller
createBlipsForProtectedSheet(sheetName, documentTitle, values, sheetNames) ==
    LET current == CurrentSheetName(sheetName, sheetNames)
        checks == ForEachValidate(values, Len(values))
        \* const header = all.shift()
        all == IF Len(values) = 0 THEN <<>> ELSE Tail(values)
        plot == plotRadar(SheetTitle(documentTitle, current),
                          [i \in 1..Len(all) |-> sanitize(all[i])], current, sheetNames)
    IN  IF FirstError(checks) # "none" THEN [calls |-> checks, plot |-> NoPlot]
        ELSE [calls |-> checks \o SanitizeCalls(all) \o PlotCalls(plot), plot |-> plot]

\* Sheet.processSheetResponse: what createBlips throws is handed to the error
\* handler of authenticate, which shows it with plotErrorMessage unless its
\* status is 403 (an exception carries no status)
WithHandler(run) == WithCatch(run)

----------------------------------------------------------------------------
(* The page, the operations in flight and the handlers as actions *)

\* error.status === 403
Forbidden == 403
\* the other failure statuses of the sheet-values fetch in the model
OtherStatuses == {401, 404, 500}

\* setDocumentTitle()
DefaultTitle == <<"B","u","i","l","d"," ","y","o","u","r"," ","o","w","n"," ","R","a","d","a","r">>

UnknownUser == "nobody"
Identities == {"alice", "bob"}

NoPanel == 0 - 1

\* an asynchronous operation in flight, with what its callback closes over:
\* the GoogleSheet instance (inst, sheetId, sheetName), the arguments of
\* authenticate (force, apiKeyEnabled) and the panel its callback removes
Op(op, inst, sheetId, sheetName, force, apiKeyEnabled, panel) ==
    [op |-> op, inst |-> inst, sheetId |-> sheetId, sheetName |-> sheetName,
     force |-> force, apiKeyEnabled |-> apiKeyEnabled, panel |-> panel]

InFlight(op) == {o \in async : o.op = op}

Tag(calls, inst) ==
    [i \in 1..Len(calls) |->
        [call |-> calls[i].call, ok |-> calls[i].ok, error |-> calls[i].error, inst |-> inst]]

\* a panel on the page: what plotErrorMessage or plotUnauthorizedErrorMessage
\* appended, with the status of the failed fetch it reports (0 if none)
Panel(kind, inst, error, user, status) ==
    [kind |-> kind, id |-> inst, error |-> error, user |-> user, status |-> status]
ErrorPanel(inst, error) == Panel("error", inst, error, UnknownUser, 0)

\* plotErrorMessage: setDocumentTitle() unless the UIRefresh2022 toggle is on
TitleAfterError(p) == IF p.uiRefresh THEN p.title ELSE DefaultTitle

\* the page after a createBlips run: plotRadar sets document.title first and
\* hands the Radar to GraphingRadar last; an error is shown by plotErrorMessage
PageAfterRun(p, run) ==
    LET called == run.plot.error # "not called"
        failed == FirstError(run.calls) # "none"
        titled == IF called THEN [p EXCEPT !.title = run.plot.title] ELSE p
    IN  [titled EXCEPT !.title = IF failed THEN TitleAfterError(titled) ELSE @,
                       !.plot = IF called THEN run.plot ELSE @,
                       !.renders = IF run.plot.rendered THEN @ + 1 ELSE @]

DomAfterRun(d, inst, run) ==
    IF FirstError(run.calls) = "none" THEN d
    ELSE d \cup {ErrorPanel(inst, FirstError(run.calls))}

\* GoogleSheetInput.build: the fetcher it builds starts its fetch
Build ==
    /\ pc = "start"
    /\ LET o == GoogleSheetInput_build(location)
           loading == IF page.uiRefresh THEN page.title ELSE DefaultTitle
       IN  /\ outcome' = o
           /\ async' =
                CASE o.kind = "CSVDocument" ->
                       {Op("d3.csv", 0, o.sheetId, Undefined, FALSE, FALSE, NoPanel)}
                  [] o.kind = "JSONFile" ->
                       {Op("d3.json", 0, o.sheetId, Undefined, FALSE, FALSE, NoPanel)}
                  [] o.kind = "GoogleSheet" ->
                       {Op("validate", 0, o.sheetId, o.sheetName, FALSE, FALSE, NoPanel)}
                  [] OTHER -> {}
           /\ page' = [page EXCEPT !.title =
                         CASE o.kind \in {"CSVDocument", "JSONFile", "GoogleSheet"} -> loading
                           [] o.kind = "form" -> DefaultTitle
                           [] OTHER -> @]
    /\ pc' = "resolved"
    /\ UNCHANGED <<location, input, trace, dom, clicks>>

\* d3.csv(url).then(createBlips)
CsvFetched ==
    \E o \in InFlight("d3.csv") :
        LET run == CSVDocument_createBlips(o.sheetId.s, input.data)
        IN  /\ async' = async \ {o}
            /\ trace' = trace \o Tag(run.calls, o.inst)
            /\ page' = PageAfterRun(page, run)
            /\ dom' = DomAfterRun(dom, o.inst, run)
            /\ UNCHANGED <<pc, location, outcome, input, clicks>>

\* d3.json(url).then(createBlips)
JsonFetched ==
    \E o \in InFlight("d3.json") :
        LET run == JSONFile_createBlips(o.sheetId.s, input.data)
        IN  /\ async' = async \ {o}
            /\ trace' = trace \o Tag(run.calls, o.inst)
            /\ page' = PageAfterRun(page, run)
            /\ dom' = DomAfterRun(dom, o.inst, run)
            /\ UNCHANGED <<pc, location, outcome, input, clicks>>

\* the promise of d3.csv / d3.json rejects: no handler is attached
FileFetchRejected ==
    \E o \in InFlight("d3.csv") \cup InFlight("d3.json") :
        /\ async' = async \ {o}
        /\ UNCHANGED <<pc, location, outcome, input, trace, page, dom, clicks>>

\* self.authenticate(force, apiKeyEnabled, callback): GoogleAuth.loadGoogle
authenticate(o, force, apiKeyEnabled, panel) ==
    Op("loadGoogle", o.inst, o.sheetId, o.sheetName, force, apiKeyEnabled, panel)

\* mutant: build goes on to authenticate after showing SHEET_NOT_FOUND
StartedAfterNotFoundAuth(o) == {authenticate(o, FALSE, FALSE, NoPanel)}

\* GoogleSheet.build, error instanceof SheetNotFoundError: return
StartedAfterNotFound(o) == {}

\* sheet.validate calls back with a SheetNotFoundError
SheetNotFound ==
    \E o \in InFlight("validate") :
        /\ async' = (async \ {o}) \cup StartedAfterNotFound(o)
        /\ dom' = dom \cup {ErrorPanel(o.inst, "SHEET_NOT_FOUND")}
        /\ page' = [page EXCEPT !.title = TitleAfterError(page)]
        /\ trace' = Append(trace, [call |-> "plotErrorMessage", ok |-> TRUE,
                                   error |-> "SHEET_NOT_FOUND", inst |-> o.inst])
        /\ UNCHANGED <<pc, location, outcome, input, clicks>>

\* sheet.validate calls back with anything else: self.authenticate(false, apiKeyEnabled)
SheetValidated ==
    \E o \in InFlight("validate"), apiKeyEnabled \in BOOLEAN :
        /\ async' = (async \ {o}) \cup {authenticate(o, FALSE, apiKeyEnabled, NoPanel)}
        /\ UNCHANGED <<pc, location, outcome, input, trace, page, dom, clicks>>

\* if (callback) callback(): the callback of the switch-account click removes its panel
AfterCallback(d, o) == {p \in d : ~(p.kind = "unauthorized" /\ p.id = o.panel)}

\* the callback of GoogleAuth.loadGoogle: login first unless the API key is
\* enabled, otherwise the sheet-values fetch at once
GoogleLoaded ==
    \E o \in InFlight("loadGoogle") :
        /\ IF ~o.apiKeyEnabled
           THEN /\ async' = (async \ {o}) \cup {[o EXCEPT !.op = "login"]}
                /\ dom' = dom
           ELSE /\ async' = (async \ {o}) \cup {[o EXCEPT !.op = "fetch"]}
                /\ dom' = AfterCallback(dom, o)
        /\ UNCHANGED <<pc, location, outcome, input, trace, page, clicks>>

\* the callback of GoogleAuth.login: the sheet-values fetch, then callback()
LoginCompleted ==
    \E o \in InFlight("login"), who \in Identities :
        /\ async' = (async \ {o}) \cup {[o EXCEPT !.op = "fetch"]}
        /\ dom' = AfterCallback(dom, o)
        /\ page' = [page EXCEPT !.identity = who]
        /\ UNCHANGED <<pc, location, outcome, input, trace, clicks>>

\* the error handler of authenticate: error.status === 403 ?
\* plotUnauthorizedErrorMessage() : plotErrorMessage(error)
PanelForStatus(o, status, user) ==
    IF status = Forbidden THEN Panel("unauthorized", o.inst, "UNAUTHORIZED", user, status)
    ELSE Panel("error", o.inst, "FETCH_FAILED", UnknownUser, status)

\* mutant: a 403 starts a forced login again by itself
RetryOnFailureAuto(o, status) ==
    IF status = Forbidden THEN {authenticate(o, TRUE, FALSE, NoPanel)} ELSE {}

\* what the error handler starts besides showing the panel: nothing
RetryOnFailure(o, status) == {}

\* the sheet-values fetch fails with a status
SheetFetchFailed ==
    \E o \in InFlight("fetch"), status \in {Forbidden} \cup OtherStatuses :
        LET panel == PanelForStatus(o, status, page.identity)
        IN  /\ async' = (async \ {o}) \cup RetryOnFailure(o, status)
            /\ dom' = dom \cup {panel}
            /\ page' = [page EXCEPT !.title =
                          IF panel.kind = "unauthorized" THEN DefaultTitle
                          ELSE TitleAfterError(page)]
            /\ trace' = Append(trace, [call |-> IF panel.kind = "unauthorized"
                                                THEN "plotUnauthorizedErrorMessage"
                                                ELSE "plotErrorMessage",
                                       ok |-> TRUE, error |-> panel.error, inst |-> o.inst])
            /\ UNCHANGED <<pc, location, outcome, input, clicks>>

\* the sheet-values fetch succeeds: createBlipsForProtectedSheet
SheetFetched ==
    \E o \in InFlight("fetch") :
        LET run == WithHandler(createBlipsForProtectedSheet(
                       o.sheetName, input.documentTitle, SheetValues(input.data),
                       input.sheetNames))
        IN  /\ async' = async \ {o}
            /\ trace' = trace \o Tag(run.calls, o.inst)
            /\ page' = PageAfterRun(page, run)
            /\ dom' = DomAfterRun(dom, o.inst, run)
            /\ UNCHANGED <<pc, location, outcome, input, clicks>>

MaxClicks == 2

\* the GoogleSheet the click handler makes from the query parameters of href
ClickSheet(inst) ==
    LET queryParams == ParamsOfHref(Href(location))
    IN  [inst |-> inst, sheetId |-> Param(queryParams, SheetIdWord),
         sheetName |-> Param(queryParams, SheetNameWord)]

\* mutant: the click retries without forcing a new login
ClickAuthenticateNoForce(inst, panel) == authenticate(ClickSheet(inst), FALSE, TRUE, panel)

\* sheet.authenticate(true, false, () => { content.remove() })
ClickAuthenticate(inst, panel) == authenticate(ClickSheet(inst), TRUE, FALSE, panel)

\* a click on the SWITCH ACCOUNT button of an unauthorized panel
SwitchAccount ==
    \E p \in dom :
        /\ p.kind = "unauthorized"
        /\ clicks < MaxClicks
        /\ clicks' = clicks + 1
        /\ async' = async \cup {ClickAuthenticate(clicks + 1, p.id)}
        /\ UNCHANGED <<pc, location, outcome, input, trace, page, dom>>

----------------------------------------------------------------------------
(* Inputs and specifications *)

Blip(name, ring, quadrant, isNew) ==
    [name |-> name, ring |-> ring, quadrant |-> quadrant, isNew |-> isNew]

\* sanitized rows: five ring values, five quadrant values and one quadrant
\* named like a property of Object.prototype
BlipPool == {
    Blip("b1", "adopt", "tools", "true"),
    Blip("b2", "trial", "techniques", "TRUE"),
    Blip("b3", "assess", "platforms", "false"),
    Blip("b4", "hold", "languages", ""),
    Blip("b5", "retire", "tools", "True"),
    Blip("b6", "adopt", "data", "yes"),
    Blip("b7", "trial", "constructor", "true") }

\* raw rows as the sources yield them, in file order
RawPool == <<
    Blip("b1", "Adopt ", " Tools", "true"),
    Blip("b2", "trial", "techniques", "TRUE"),
    Blip("b3", "assess", "platforms", "false"),
    Blip("b4", "hold", "languages", ""),
    Blip("b5", "retire", "tools", "True"),
    Blip("b6", "adopt", "data", "yes"),
    Blip("b7", "trial", "constructor", "true") >>

MaxRows == 5
MaxDataRows == 5

\* the row sequences plotRadar is run on
RowSequences == UNION {[1..n -> BlipPool] : n \in 0..MaxRows}

\* the rows of RawPool at the positions picked, in file order
RECURSIVE Pick(_, _)
Pick(picked, i) ==
    IF i > Len(RawPool) THEN <<>>
    ELSE (IF i \in picked THEN <<RawPool[i]>> ELSE <<>>) \o Pick(picked, i + 1)

RawRowSets ==
    {Pick(picked, 1) : picked \in {S \in SUBSET (1..Len(RawPool)) : Cardinality(S) <= MaxDataRows}}

HeaderRows_Good == <<"name", "ring", "quadrant", "isNew", "description">>

HeaderRows == {
    <<"name", "ring", "quadrant", "isNew", "description">>,
    <<"Quadrant", "Name", "Ring", "IsNew", "Description", "topic">>,
    <<"name", "ring", "quadrant", "isNew">>,
    <<>> }

SheetNameQ1 == <<"Q","1">>
SheetNameQ2 == <<"Q","2",".","c","s","v">>
SheetNameLists == {<<>>, <<SheetNameQ1, SheetNameQ2>>, <<SheetNameQ2, SheetNameQ1>>}

DocumentTitle == <<"R","a","d","a","r">>

CsvUrl == <<"h","t","t","p","s",":","/","/","x",".","i","o","/","a",".","j","s","o","n",".","c","s","v">>
JsonUrl == <<"h","t","t","p","s",":","/","/","x",".","i","o","/","b",".","j","s","o","n">>
SheetUrl == <<"h","t","t","p","s",":","/","/","d","o","c","s",".","g","o","o","g","l","e",".","c","o","m","/","d","/","1">>
Question == <<"?">>
Equals == <<"=">>
Amp == <<"&">>

SearchFor(url) == Question \o SheetIdWord \o Equals \o url
SearchForSheet(name) == SearchFor(SheetUrl) \o Amp \o SheetNameWord \o Equals \o name

\* the locations of the ingestion runs: one per source, the sheet without a
\* sheetName, with one and with an empty one
IngestSearches ==
    {SearchFor(CsvUrl), SearchFor(JsonUrl), SearchFor(SheetUrl),
     SearchForSheet(SheetNameQ2), SearchForSheet(<<>>)}

Input(columns, rows, sheetNames) ==
    [data |-> [columns |-> columns, rows |-> rows],
     documentTitle |-> DocumentTitle, sheetNames |-> sheetNames]

NoInput == Input(<<>>, <<>>, <<>>)
NoOutcome == [kind |-> "none", sheetId |-> Undefined, sheetName |-> Undefined]
Page(uiRefresh) ==
    [title |-> <<>>, plot |-> NoPlot, renders |-> 0, identity |-> UnknownUser,
     uiRefresh |-> uiRefresh]

Idle ==
    /\ outcome = NoOutcome
    /\ trace = <<>>
    /\ async = {}
    /\ dom = {}
    /\ clicks = 0

\* the resolver on every query string of up to MaxParams parameters
InitResolver ==
    /\ pc = "start"
    /\ location \in SearchStrings
    /\ input = NoInput
    /\ page = Page(FALSE)
    /\ Idle

SpecResolver == InitResolver /\ [][Build]_vars

\* plotRadar on every row sequence of up to MaxRows rows
InitPlot ==
    /\ pc = "rows"
    /\ location = <<>>
    /\ input \in {Input(<<>>, rows, <<>>) : rows \in RowSequences}
    /\ page = Page(FALSE)
    /\ Idle

PlotRows ==
    /\ pc = "rows"
    /\ pc' = "plotted"
    /\ page' = [page EXCEPT !.plot = plotRadar(FileName(CsvUrl), input.data.rows,
                                                 Str(CsvFileLabel), <<>>)]
    /\ UNCHANGED <<location, outcome, input, trace, async, dom, clicks>>

SpecPlot == InitPlot /\ [][PlotRows]_vars

\* the three ingestion paths on every data set, every fetch succeeding
InitIngest ==
    /\ pc = "start"
    /\ location \in IngestSearches
    /\ input \in {Input(columns, rows, names) :
                    columns \in HeaderRows, rows \in RawRowSets, names \in SheetNameLists}
    /\ page = Page(FALSE)
    /\ Idle

NextIngest ==
    \/ Build
    \/ CsvFetched
    \/ JsonFetched
    \/ SheetValidated
    \/ GoogleLoaded
    \/ LoginCompleted
    \/ SheetFetched

SpecIngest == InitIngest /\ [][NextIngest]_vars

\* the whole program on a few data sets, with failing fetches and clicks
GoodRows == Pick({1, 2, 3, 4}, 1)

Init ==
    /\ pc = "start"
    /\ location \in IngestSearches
    /\ input \in {Input(HeaderRows_Good, GoodRows, <<SheetNameQ1, SheetNameQ2>>),
                  Input(<<>>, <<>>, <<SheetNameQ1>>)}
    /\ page \in {Page(u) : u \in BOOLEAN}
    /\ Idle

Next ==
    \/ Build
    \/ CsvFetched
    \/ JsonFetched
    \/ FileFetchRejected
    \/ SheetNotFound
    \/ SheetValidated
    \/ GoogleLoaded
    \/ LoginCompleted
    \/ SheetFetchFailed
    \/ SheetFetched
    \/ SwitchAccount

Spec == Init /\ [][Next]_vars

----------------------------------------------------------------------------
(* Claims *)

Rows == input.data.rows
RingValues(rows) == {rows[i].ring : i \in 1..Len(rows)}
QuadrantValues(rows) == {rows[i].quadrant : i \in 1..Len(rows)}
FirstSeen(rows, ring) == SetMin({i \in 1..Len(rows) : rows[i].ring = ring})
Plotted == pc = "plotted"
Fetchers == {"CSVDocument", "JSONFile", "GoogleSheet"}
\* the ingestion has run to its end
Ingested == pc = "resolved" /\ outcome.kind \in Fetchers /\ async = {}

\* the sheetId and sheetName parameters of the query string, read as a whole
QueryOf(search) == QueryParams(Substring(search, 1))
DomainOf(url) == IF Malformed(ReplacePlus(url)) THEN Null ELSE DomainName(url)

\* the outcome C1 states for a well formed query string; a sheetId that is
\* not an absolute URL is among the claim's "every other case"
ClaimedOutcome(search) ==
    LET sheetId == Param(QueryOf(search), SheetIdWord)
        sheetName == Param(QueryOf(search), SheetNameWord)
        absolute == IsStr(sheetId) /\ IsStr(DomainOf(sheetId.s))
    IN  IF absolute /\ EndsWith(sheetId.s, DotCsv)
        THEN Built("CSVDocument", sheetId, Undefined)
        ELSE IF absolute /\ EndsWith(sheetId.s, DotJson)
        THEN Built("JSONFile", sheetId, Undefined)
        ELSE IF absolute /\ EndsWith(DomainOf(sheetId.s).s, GoogleCom)
        THEN Built("GoogleSheet", sheetId, sheetName)
        ELSE ShowForm

\* C1: for every (well formed) query string build raises no error and
\* selects the outcome by the sheetId parameter: '.csv' -> CSVDocument, else
\* '.json' -> JSONFile, else a sheetId on the provider's domain -> GoogleSheet
\* with the sheetName, else (sheetId missing or not an absolute URL) the form.
C1_BuildSelectsBySheetId ==
    (pc = "resolved" /\ ~Malformed(ReplacePlus(Substring(location, 1)))) =>
        /\ outcome.kind \notin {"TypeError", "URIError"}
        /\ outcome = ClaimedOutcome(location)

\* C2: plotRadar fails with LESS_THAN_FOUR_QUADRANTS on fewer than 4 distinct
\* quadrant values, with TOO_MANY_QUADRANTS on more than 4, succeeds on
\* exactly 4, and hands a Radar to the renderer only then (row sets with
\* more than 4 distinct rings fail earlier, the claim's "other errors").
C2_QuadrantCountDecides ==
    (Plotted /\ Cardinality(RingValues(Rows)) <= maxRings) =>
        LET n == Cardinality(QuadrantValues(Rows))
        IN  /\ n < QuadrantCount => page.plot.error = "LESS_THAN_FOUR_QUADRANTS"
            /\ n > QuadrantCount => page.plot.error = "TOO_MANY_QUADRANTS"
            /\ n = QuadrantCount => page.plot.error = "none"
            /\ page.plot.rendered <=> n = QuadrantCount

\* C3: with more than 4 distinct ring values plotRadar fails with
\* TOO_MANY_RINGS at the fifth distinct ring (Rings 0..3 exist by then),
\* before any Quadrant or Blip is created and before the renderer; with 4 or
\* fewer it never raises TOO_MANY_RINGS.
C3_TooManyRings ==
    Plotted =>
        IF Cardinality(RingValues(Rows)) > maxRings
        THEN /\ page.plot.error = "TOO_MANY_RINGS"
             /\ Len(page.plot.rings) = maxRings
             /\ \A j \in 1..maxRings :
                    /\ page.plot.rings[j].order = j - 1
                    /\ Cardinality({i \in 1..Len(Rows) :
                           FirstSeen(Rows, Rows[i].ring) = i
                           /\ i < FirstSeen(Rows, page.plot.rings[j].name)}) = j - 1
             /\ page.plot.quadrants = <<>>
             /\ page.plot.blips = <<>>
             /\ ~page.plot.rendered
             /\ ~page.plot.radar.built
        ELSE page.plot.error # "TOO_MANY_RINGS"

C3_Witness ==
    /\ Plotted
    /\ page.plot.error = "TOO_MANY_RINGS"
    /\ Cardinality(RingValues(Rows)) = maxRings + 1
    /\ Cardinality(QuadrantValues(Rows)) = QuadrantCount

\* C4: on a successful build with k distinct ring values there is one Ring
\* per value, their orders are 0..k-1 in first-seen row order, and the ring
\* of every Blip, in the Radar as well, is the Ring of its row's ring value.
C4_RingOrders ==
    (Plotted /\ page.plot.error = "none") =>
        LET rings == page.plot.rings
            k == Cardinality(RingValues(Rows))
        IN  /\ Len(rings) = k
            /\ {rings[j].name : j \in 1..k} = RingValues(Rows)
            /\ \A j \in 1..k : rings[j].order = j - 1
            /\ \A a, b \in 1..k :
                   a < b => FirstSeen(Rows, rings[a].name) < FirstSeen(Rows, rings[b].name)
            /\ Len(page.plot.blips) = Len(Rows)
            /\ \A i \in 1..Len(Rows) :
                   /\ page.plot.blips[i].ring # Undefined
                   /\ page.plot.blips[i].ring.name = Rows[i].ring
                   /\ \E j \in 1..k : rings[j] = page.plot.blips[i].ring
            /\ \A q \in 1..Len(page.plot.radar.quadrants) :
                   \A m \in 1..Len(page.plot.radar.quadrants[q].blips) :
                       \E i \in 1..Len(Rows) :
                           page.plot.radar.quadrants[q].blips[m] = page.plot.blips[i]

\* a successful build whose first-seen ring order is not the alphabetical one
C4_Witness ==
    /\ Plotted
    /\ page.plot.error = "none"
    /\ Len(page.plot.rings) = maxRings
    /\ page.plot.rings[1].name = "trial"
    /\ page.plot.rings[maxRings].name = "adopt"
    /\ Len(Rows) > maxRings

\* C5: on every source path a source that yields zero rows ends with
\* MalformedDataError(MISSING_CONTENT), raised before any header check, and
\* no Radar is built or rendered.
C5_EmptyIsMissingContent ==
    (Ingested /\ Len(Rows) = 0) =>
        /\ dom = {ErrorPanel(0, "MISSING_CONTENT")}
        /\ \A i \in 1..Len(trace) : trace[i].call # "verifyHeaders"
        /\ page.renders = 0
        /\ ~page.plot.radar.built

\* the step completes the operation op of some instance
Completes(op) == \E o \in async \ async' : o.op = op
NotFoundPanels == {p \in dom : p.error = "SHEET_NOT_FOUND"}

\* C6: when sheet.validate reports that the document does not exist the
\* SHEET_NOT_FOUND error is shown and authenticate is not called: the step
\* starts nothing, and no library load, login or fetch ever follows.
C6_NotFoundStopsBeforeAuth ==
    /\ [](NotFoundPanels # {} =>
            /\ async = {}
            /\ dom = {ErrorPanel(0, "SHEET_NOT_FOUND")}
            /\ clicks = 0
            /\ page.identity = UnknownUser
            /\ page.renders = 0
            /\ Len(trace) = 1 /\ trace[1].call = "plotErrorMessage")
    /\ [][Completes("validate") =>
            \/ /\ dom' = dom \cup {ErrorPanel(0, "SHEET_NOT_FOUND")}
               /\ async' = {}
            \/ /\ dom' = dom
               /\ \E o \in async' : o.op = "loadGoogle" /\ ~o.force]_vars

C6_Witness == NotFoundPanels # {} /\ outcome.kind = "GoogleSheet"

\* C7: a sheet-values fetch that fails with 403 shows the unauthorized panel
\* with the current identity and never the generic error, any other status
\* the generic error and never the unauthorized panel; the switch-account
\* click starts a login with force = true, and the new fetch, for the sheetId
\* and sheetName of the page, is issued only when that login completes.
C7_UnauthorizedAndReauth ==
    [][/\ \A p \in dom' \ dom :
            p.status # 0 =>
                /\ dom' \ dom = {p}
                /\ Completes("fetch")
                /\ p.status = Forbidden =>
                       p.kind = "unauthorized" /\ p.user = page.identity
                /\ p.status # Forbidden => p.kind = "error"
       /\ \A o \in async' \ async :
            o.inst > 0 =>
                /\ o.force /\ ~o.apiKeyEnabled
                /\ o.sheetId = outcome.sheetId /\ o.sheetName = outcome.sheetName
                /\ o.op \in {"loadGoogle", "login", "fetch"}
                /\ o.op = "loadGoogle" => clicks' = clicks + 1 /\ o.inst = clicks'
                /\ o.op = "login" =>
                       \E l \in async \ async' : l.op = "loadGoogle" /\ l.inst = o.inst
                /\ o.op = "fetch" =>
                       \E l \in async \ async' :
                           l.op = "login" /\ l.inst = o.inst /\ l.force]_vars

\* a retried fetch is in flight after a forced login, next to a generic error
C7_Witness ==
    /\ \E o \in async : o.op = "fetch" /\ o.inst > 0 /\ o.force
    /\ \E p \in dom : p.kind = "error" /\ p.status \in OtherStatuses
    /\ page.identity \in Identities

\* C8 as stated: under any sequence of switch-account clicks at most one
\* login is in flight at a time.
C8_OneLoginInFlight == Cardinality(InFlight("login")) <= 1

\* C8 amended: no login is started by the pipeline itself (a failed or
\* completed fetch starts nothing; an authentication starts with build's
\* validate or with a click), and each GoogleSheet instance has at most one
\* operation, so at most one login, in flight; every click makes a new
\* instance, so up to `clicks` logins are in flight together.
C8_RetryOnlyByClick ==
    /\ [](/\ \A i \in 0..clicks : Cardinality({o \in async : o.inst = i}) <= 1
          /\ \A o \in async : o.inst \in 0..clicks
          /\ Cardinality(InFlight("login")) <= (IF clicks = 0 THEN 1 ELSE clicks))
    /\ [][/\ Completes("fetch") => async' \ async = {}
          /\ \A o \in async' \ async :
                \/ o.op \notin {"loadGoogle", "login"}
                \/ o.op = "login" /\ Completes("loadGoogle")
                \/ o.op = "loadGoogle" /\ o.inst = 0 /\ Completes("validate")
                \/ o.op = "loadGoogle" /\ o.inst = clicks' /\ clicks' = clicks + 1]_vars

C8_Witness == Cardinality(InFlight("login")) = MaxClicks /\ MaxClicks > 1

Calls(name) == {i \in 1..Len(trace) : trace[i].call = name}
Failed == {i \in 1..Len(trace) : ~trace[i].ok}

\* C9: on every path the content check and the header check have returned
\* before any row is sanitized, every row is sanitized before plotRadar
\* starts, and the first error is shown by plotErrorMessage, after which
\* nothing runs: the renderer is never invoked for a failed ingestion.
C9_ChecksThenSanitizeThenPlot ==
    /\ \A i \in Calls("sanitize") :
          /\ \E a \in Calls("verifyContent") : a < i
          /\ \E b \in Calls("verifyHeaders") : b < i
          /\ \A j \in Calls("verifyContent") \cup Calls("verifyHeaders") : j < i /\ trace[j].ok
    /\ \A i \in Calls("plotRadar") :
          /\ \A j \in Calls("sanitize") : j < i
          /\ Cardinality(Calls("sanitize")) = Len(Rows)
    /\ \A i \in Calls("GraphingRadar") :
          /\ Failed = {}
          /\ \E j \in Calls("plotRadar") : j < i
    /\ Failed # {} =>
          /\ Cardinality(Failed) = 1
          /\ Len(trace) = SetMin(Failed) + 1
          /\ trace[Len(trace)].call = "plotErrorMessage"
          /\ trace[Len(trace)].error = trace[SetMin(Failed)].error
          /\ dom = {ErrorPanel(0, trace[SetMin(Failed)].error)}
          /\ page.renders = 0
    /\ Failed = {} => dom = {}
    /\ (Ingested /\ Failed = {}) => page.renders = 1

\* a sheet ingestion whose rows pass the checks and fail in plotRadar
C9_Witness ==
    /\ outcome.kind = "GoogleSheet"
    /\ \E i \in Calls("plotRadar") : trace[i].error = "TOO_MANY_RINGS"
    /\ Cardinality(Calls("sanitize")) = maxRings + 1
    /\ trace[Len(trace)].call = "plotErrorMessage"

FirstSheetName == IF Len(input.sheetNames) > 0 THEN Str(input.sheetNames[1]) ELSE Undefined

\* C10: a successful sheet ingestion uses the caller's sheetName, or the
\* first fetched sheet name when none was given, as the current sheet and in
\* the display title '<document title> - <sheet name>', and attaches the
\* fetched sheet names in order; CSV and JSON use the fixed label and no
\* alternatives.
C10_SheetNames ==
    (Ingested /\ page.renders = 1) =>
        LET radar == page.plot.radar
            current == IF Truthy(outcome.sheetName) THEN outcome.sheetName ELSE FirstSheetName
        IN  CASE outcome.kind = "GoogleSheet" ->
                   /\ radar.current = current
                   /\ page.title = input.documentTitle \o <<" ", "-", " ">> \o ToText(current)
                   /\ radar.alternatives = input.sheetNames
              [] outcome.kind = "CSVDocument" ->
                   radar.current = Str(CsvFileLabel) /\ radar.alternatives = <<>>
              [] outcome.kind = "JSONFile" ->
                   radar.current = Str(JsonFileLabel) /\ radar.alternatives = <<>>

============================================================================
